---- MODULE Spec2Model ----
(***************************************************************************)
(* Model of the chat backend in src/index.js: the per-user JSON store, the *)
(* HTTP handlers (login, list, create, send, delete, delete all, action)   *)
(* and the suspension of the send and action handlers on the generation    *)
(* client.  Strings are sequences of one-character strings, so that        *)
(* length, substring and trim are computed as the code computes them.      *)
(* Ids are the decimal digits of the clock value.  The file system is      *)
(* taken to work: readFileSync and writeFileSync do not throw.  The        *)
(* variable `last` is the response sent last, with the store before it     *)
(* and the record the handler had read; it is what the properties are      *)
(* stated over.                                                            *)
(***************************************************************************)
EXTENDS Integers, Sequences, FiniteSets

\* ---------------------------------------------------------------- bounds
MaxTime == 2
MaxChats == 2
MaxMsgs == 3
MaxPending == 2

\* ------------------------------------------------------- program constants
TitleMax == 30

\* ------------------------------------------------------------ string model
Rep(c, n) == [i \in 1..n |-> c]

Ellipsis == <<".", ".", ".">>

NewChatTitle == <<"N", "e", "w", " ", "C", "h", "a", "t">>

IsSpace(c) == c \in {" ", "\t", "\n"}

RECURSIVE TrimStart(_)
TrimStart(s) ==
    IF s = <<>> THEN <<>>
    ELSE IF IsSpace(Head(s)) THEN TrimStart(Tail(s)) ELSE s

RECURSIVE TrimEnd(_)
TrimEnd(s) ==
    IF s = <<>> THEN <<>>
    ELSE IF IsSpace(s[Len(s)]) THEN TrimEnd(SubSeq(s, 1, Len(s) - 1)) ELSE s

\* String.prototype.trim
Trim(s) == TrimEnd(TrimStart(s))

\* String.prototype.substring(0, n)
Substring0(s, n) == SubSeq(s, 1, IF Len(s) < n THEN Len(s) ELSE n)

\* Number.prototype.toString: the decimal digits of n
RECURSIVE ToString(_)
ToString(n) == IF n < 10 THEN <<n>> ELSE ToString(n \div 10) \o <<n % 10>>

\* ------------------------------------------------------------------ inputs
Users == {"alice"}

ShortContent == <<"h", "i">>
PaddedContent == <<" ", "h", "i">>
BlankContent == <<" ">>
LongContent == Rep("x", TitleMax + 1)

Contents == {PaddedContent, BlankContent, LongContent}

RaceContents == {ShortContent}

RaceTitles == {[present |-> FALSE, value |-> <<>>]}

RaceChatIds == {ToString(1)}

RaceMessageIds == {ToString(2)}

RaceActions == {"concise"}

SuppliedTitle == <<"T">>

ReqTitles == {[present |-> FALSE, value |-> <<>>], [present |-> TRUE, value |-> SuppliedTitle]}

UnknownId == <<0>>

ChatIds == {ToString(t) : t \in 1..MaxTime} \cup {UnknownId}

MessageIds == {ToString(t) : t \in 1..(MaxTime + 1)} \cup {<<>>}

Actions == {"concise", "expand", "shorten", ""}

Reply == <<"o", "k">>

\* what the generation client does with one call: it throws, or returns text
GenOutcomes == {[ok |-> FALSE, text |-> <<>>], [ok |-> TRUE, text |-> Reply]}

\* ------------------------------------------------------------------- state
VARIABLES files, now, pend, last

vars == <<files, now, pend, last>>

NoMsg == [id |-> <<>>, content |-> <<>>, sender |-> "", timestamp |-> 0]

EmptyRecord(username) == [username |-> username, chats |-> <<>>]

Idle == [kind |-> "idle"]

NoResp ==
    [op |-> "none", user |-> "", chatId |-> <<>>, content |-> <<>>,
     reqTitle |-> [present |-> FALSE, value |-> <<>>],
     messageId |-> <<>>, action |-> "", status |-> 0, gen |-> "none",
     repeat |-> FALSE, changed |-> FALSE, priorChanged |-> FALSE,
     pre |-> <<>>, read |-> EmptyRecord(""), cidx |-> 0, midx |-> 0,
     overlap |-> FALSE, chatTitle |-> <<>>, userMessage |-> NoMsg,
     aiMessage |-> NoMsg]

\* ------------------------------------------------------------------- store
\* getUserData: the parsed file if it exists, else a fresh empty record
GetUserData(f, username) ==
    IF username \in DOMAIN f THEN f[username] ELSE EmptyRecord(username)

\* saveUserData: overwrite (or create) the user's file with the whole record
SaveUserData(f, username, data) ==
    [u \in (DOMAIN f) \cup {username} |-> IF u = username THEN data ELSE f[u]]

\* Array.prototype.find over chats, as the index of the first match (0: none)
FindChat(chats, chatId) ==
    IF \E i \in 1..Len(chats) : chats[i].id = chatId
    THEN CHOOSE i \in 1..Len(chats) :
            /\ chats[i].id = chatId
            /\ \A j \in 1..(i - 1) : chats[j].id # chatId
    ELSE 0

\* chat.messages.find(m => m.id === messageId && m.sender === "ai")
FindAiMessage(msgs, messageId) ==
    IF \E i \in 1..Len(msgs) : msgs[i].id = messageId /\ msgs[i].sender = "ai"
    THEN CHOOSE i \in 1..Len(msgs) :
            /\ msgs[i].id = messageId /\ msgs[i].sender = "ai"
            /\ \A j \in 1..(i - 1) : ~(msgs[j].id = messageId /\ msgs[j].sender = "ai")
    ELSE 0

\* variant: the new chat is pushed to the end of the list
UnshiftAtEnd(chats, c) == Append(chats, c)

\* userData.chats.unshift(newChat)
Unshift(chats, c) == <<c>> \o chats

\* chat.messages.push(m)
Push(msgs, m) == Append(msgs, m)

\* variant: only the first chat with the id is removed
RECURSIVE FilterOutFirst(_, _)
FilterOutFirst(chats, chatId) ==
    IF chats = <<>> THEN <<>>
    ELSE IF Head(chats).id = chatId THEN Tail(chats)
    ELSE <<Head(chats)>> \o FilterOutFirst(Tail(chats), chatId)

\* userData.chats.filter(chat => chat.id !== chatId)
FilterOut(chats, chatId) == SelectSeq(chats, LAMBDA c : c.id # chatId)

\* content.length > 30 ? content.substring(0, 30) + '...' : content
DeriveTitle(content) ==
    IF Len(content) > TitleMax THEN Substring0(content, TitleMax) \o Ellipsis ELSE content

\* the action is one the handler builds a prompt for
ValidAction(action) == action \in {"concise", "expand"}

\* every other request suspended on this user's record sees a write go by
MarkWrites(p, username, self) ==
    [i \in DOMAIN p |->
        IF i # self /\ p[i].kind # "idle" /\ p[i].user = username
        THEN [p[i] EXCEPT !.overlap = TRUE] ELSE p[i]]

FreeSlot(p) == CHOOSE i \in DOMAIN p : p[i].kind = "idle" /\ \A j \in 1..(i - 1) : p[j].kind # "idle"

HasFreeSlot(p) == \E i \in DOMAIN p : p[i].kind = "idle"

\* the response just sent.  repeat: the request before it was the same one and
\* succeeded; changed: this request changed the store; priorChanged: the one
\* before it did
Respond(r) ==
    last' = [r EXCEPT !.repeat = /\ last.op = r.op /\ last.user = r.user
                                 /\ last.chatId = r.chatId /\ last.status = 200,
                      !.changed = (files' # files),
                      !.priorChanged = last.changed]

\* -------------------------------------------------------------------- init
Init ==
    /\ files = <<>>
    /\ now = 1
    /\ pend = [i \in 1..MaxPending |-> Idle]
    /\ last = NoResp

\* ------------------------------------------------------- generation client
\* generateChatResponse: throws on an empty history, else whatever the
\* external service does with this call
GenerateChatResponse(history, outcome) ==
    IF Len(history) = 0 THEN [ok |-> FALSE, text |-> <<>>] ELSE outcome

\* ---------------------------------------------------------------- handlers
\* POST /api/login
Login(username) ==
    /\ UNCHANGED <<files, now, pend>>
    /\ Respond([NoResp EXCEPT !.op = "login", !.user = username,
                  !.status = IF username = "" THEN 400 ELSE 200,
                  !.pre = files,
                  !.read = IF username = "" THEN EmptyRecord("") ELSE GetUserData(files, username)])

\* GET /api/chats/:username
ListChats(username) ==
    /\ UNCHANGED <<files, now, pend>>
    /\ Respond([NoResp EXCEPT !.op = "list", !.user = username, !.status = 200,
                  !.pre = files, !.read = GetUserData(files, username)])

\* the chat object the create handler builds
NewChat(t) == [id |-> ToString(t), title |-> NewChatTitle, messages |-> <<>>, createdAt |-> t]

\* POST /api/chats/:username
CreateChat(username, reqTitle) ==
    LET userData == GetUserData(files, username)
        newData == [userData EXCEPT !.chats = Unshift(@, NewChat(now))]
    IN /\ Len(userData.chats) < MaxChats
       /\ files' = SaveUserData(files, username, newData)
       /\ pend' = MarkWrites(pend, username, 0)
       /\ Respond([NoResp EXCEPT !.op = "create", !.user = username, !.reqTitle = reqTitle,
                     !.status = 200, !.pre = files, !.read = userData])
       /\ UNCHANGED now

\* the user message the send handler builds
UserMessage(content, t) ==
    [id |-> ToString(t), content |-> Trim(content), sender |-> "user", timestamp |-> t]

\* the AI message the send handler builds after the generation call
AiMessage(text, t) ==
    [id |-> ToString(t + 1), content |-> text, sender |-> "ai", timestamp |-> t]

\* the in-memory record after title derivation and the push of the user message
SendPrepared(userData, cidx, content, t) ==
    LET chat == userData.chats[cidx]
    IN [userData EXCEPT !.chats[cidx] =
          [chat EXCEPT !.title = IF Len(chat.messages) = 0 THEN DeriveTitle(content) ELSE chat.title,
                       !.messages = Push(chat.messages, UserMessage(content, t))]]

\* POST /api/chats/:username/:chatId/messages, up to the await
SendStart(username, chatId, content) ==
    LET userData == GetUserData(files, username)
        cidx == FindChat(userData.chats, chatId)
        req == [NoResp EXCEPT !.op = "send", !.user = username, !.chatId = chatId,
                              !.content = content, !.pre = files]
    IN IF Trim(content) = <<>>
       THEN /\ UNCHANGED <<files, now, pend>>
            /\ Respond([req EXCEPT !.status = 400])
       ELSE IF cidx = 0
       THEN \* chat is undefined: chat.messages throws, the catch answers 500
            /\ UNCHANGED <<files, now, pend>>
            /\ Respond([req EXCEPT !.status = 500, !.read = userData])
       ELSE /\ HasFreeSlot(pend)
            /\ Len(userData.chats[cidx].messages) + 2 <= MaxMsgs
            /\ pend' = [pend EXCEPT ![FreeSlot(pend)] =
                  [kind |-> "send", user |-> username, chatId |-> chatId, content |-> content,
                   messageId |-> <<>>, action |-> "",
                   userData |-> SendPrepared(userData, cidx, content, now),
                   read |-> userData, cidx |-> cidx, midx |-> 0,
                   userMessage |-> UserMessage(content, now), overlap |-> FALSE]]
            /\ UNCHANGED <<files, now, last>>

\* the in-memory record after the push of the AI message
SendCompleted(p, text, t) ==
    [p.userData EXCEPT !.chats[p.cidx].messages = Push(@, AiMessage(text, t))]

\* variant: the record holding the user message is saved although generation failed
SendStoreEager(f, p, res, t) ==
    IF res.ok THEN SaveUserData(f, p.user, SendCompleted(p, res.text, t))
    ELSE SaveUserData(f, p.user, p.userData)

\* variant: the save is skipped when the record was written since it was read
SendStoreGuarded(f, p, res, t) ==
    IF res.ok /\ ~p.overlap THEN SaveUserData(f, p.user, SendCompleted(p, res.text, t)) ELSE f

\* the store after the send handler resumes: saved on success, untouched in the catch
SendStore(f, p, res, t) ==
    IF res.ok THEN SaveUserData(f, p.user, SendCompleted(p, res.text, t)) ELSE f

\* POST /api/chats/:username/:chatId/messages, from the await on
SendFinish(i, outcome) ==
    LET p == pend[i]
        res == GenerateChatResponse(p.userData.chats[p.cidx].messages, outcome)
        req == [NoResp EXCEPT !.op = "send", !.user = p.user, !.chatId = p.chatId,
                              !.content = p.content, !.pre = files, !.read = p.read,
                              !.cidx = p.cidx, !.overlap = p.overlap,
                              !.userMessage = p.userMessage]
    IN /\ p.kind = "send"
       /\ files' = SendStore(files, p, res, now)
       /\ pend' = [(IF res.ok THEN MarkWrites(pend, p.user, i) ELSE pend) EXCEPT ![i] = Idle]
       /\ Respond(IF res.ok
                  THEN [req EXCEPT !.status = 200, !.gen = "ok",
                                   !.aiMessage = AiMessage(res.text, now),
                                   !.chatTitle = p.userData.chats[p.cidx].title]
                  ELSE [req EXCEPT !.status = 500, !.gen = "failed"])
       /\ UNCHANGED now

\* DELETE /api/chats/:username/:chatId
DeleteChat(username, chatId) ==
    LET userData == GetUserData(files, username)
        newData == [userData EXCEPT !.chats = FilterOut(@, chatId)]
    IN /\ files' = SaveUserData(files, username, newData)
       /\ pend' = MarkWrites(pend, username, 0)
       /\ Respond([NoResp EXCEPT !.op = "delete", !.user = username, !.chatId = chatId,
                     !.status = 200, !.pre = files, !.read = userData])
       /\ UNCHANGED now

\* DELETE /api/chats/:username
DeleteAllChats(username) ==
    LET userData == GetUserData(files, username)
        newData == [userData EXCEPT !.chats = <<>>]
    IN /\ files' = SaveUserData(files, username, newData)
       /\ pend' = MarkWrites(pend, username, 0)
       /\ Respond([NoResp EXCEPT !.op = "deleteAll", !.user = username,
                     !.status = 200, !.pre = files, !.read = userData])
       /\ UNCHANGED now

\* the rewrite instruction built for the generation client: the instruction
\* text, written here by its first letter, followed by the message's content
ActionPrompt(action, content) ==
    (IF action = "concise" THEN <<"c", ":">> ELSE <<"e", ":">>) \o content

\* POST /api/chats/:username/:chatId/actions, up to the await
ActionStart(username, chatId, messageId, action) ==
    LET userData == GetUserData(files, username)
        cidx == FindChat(userData.chats, chatId)
        midx == IF cidx = 0 THEN 0 ELSE FindAiMessage(userData.chats[cidx].messages, messageId)
        req == [NoResp EXCEPT !.op = "action", !.user = username, !.chatId = chatId,
                              !.messageId = messageId, !.action = action, !.pre = files]
    IN IF messageId = <<>> \/ action = ""
       THEN /\ UNCHANGED <<files, now, pend>>
            /\ Respond([req EXCEPT !.status = 400])
       ELSE IF cidx = 0 \/ midx = 0
       THEN /\ UNCHANGED <<files, now, pend>>
            /\ Respond([req EXCEPT !.status = 404, !.read = userData, !.cidx = cidx])
       ELSE IF ~ValidAction(action)
       THEN /\ UNCHANGED <<files, now, pend>>
            /\ Respond([req EXCEPT !.status = 400, !.read = userData,
                                   !.cidx = cidx, !.midx = midx])
       ELSE /\ HasFreeSlot(pend)
            /\ pend' = [pend EXCEPT ![FreeSlot(pend)] =
                  [kind |-> "action", user |-> username, chatId |-> chatId,
                   content |-> ActionPrompt(action, userData.chats[cidx].messages[midx].content),
                   messageId |-> messageId, action |-> action,
                   userData |-> userData, read |-> userData, cidx |-> cidx, midx |-> midx,
                   userMessage |-> NoMsg, overlap |-> FALSE]]
            /\ UNCHANGED <<files, now, last>>

\* variant: the rewritten message also gets a fresh id, as a new AI message does
RewrittenFresh(m, text, t) ==
    [m EXCEPT !.content = text, !.timestamp = t, !.id = ToString(t + 1)]

\* the target message after the overwrite of its content and timestamp
Rewritten(m, text, t) == [m EXCEPT !.content = text, !.timestamp = t]

\* the in-memory record after the overwrite
ActionCompleted(p, text, t) ==
    [p.userData EXCEPT !.chats[p.cidx].messages[p.midx] = Rewritten(@, text, t)]

\* the store after the action handler resumes: saved on success, untouched in the catch
ActionStore(f, p, res, t) ==
    IF res.ok THEN SaveUserData(f, p.user, ActionCompleted(p, res.text, t)) ELSE f

\* POST /api/chats/:username/:chatId/actions, from the await on
ActionFinish(i, outcome) ==
    LET p == pend[i]
        res == GenerateChatResponse(<<[sender |-> "user", content |-> p.content]>>, outcome)
        req == [NoResp EXCEPT !.op = "action", !.user = p.user, !.chatId = p.chatId,
                              !.messageId = p.messageId, !.action = p.action,
                              !.pre = files, !.read = p.read, !.cidx = p.cidx,
                              !.midx = p.midx, !.overlap = p.overlap]
    IN /\ p.kind = "action"
       /\ files' = ActionStore(files, p, res, now)
       /\ pend' = [(IF res.ok THEN MarkWrites(pend, p.user, i) ELSE pend) EXCEPT ![i] = Idle]
       /\ Respond(IF res.ok
                  THEN [req EXCEPT !.status = 200, !.gen = "ok",
                          !.aiMessage = Rewritten(p.userData.chats[p.cidx].messages[p.midx],
                                                  res.text, now)]
                  ELSE [req EXCEPT !.status = 500, !.gen = "failed"])
       /\ UNCHANGED now

\* the clock behind Date.now() moves on between steps
Tick ==
    /\ now < MaxTime
    /\ now' = now + 1
    /\ UNCHANGED <<files, pend, last>>

\* no request is suspended on the generation client
Quiet == \A i \in DOMAIN pend : pend[i].kind = "idle"

\* requests arrive one at a time: each is answered before the next is read
NextSeq ==
    \/ Quiet /\ \E u \in Users \cup {""} : Login(u)
    \/ Quiet /\ \E u \in Users : ListChats(u)
    \/ Quiet /\ \E u \in Users, t \in ReqTitles : CreateChat(u, t)
    \/ Quiet /\ \E u \in Users, c \in ChatIds, s \in Contents : SendStart(u, c, s)
    \/ \E i \in 1..MaxPending, o \in GenOutcomes : SendFinish(i, o)
    \/ Quiet /\ \E u \in Users, c \in ChatIds : DeleteChat(u, c)
    \/ Quiet /\ \E u \in Users : DeleteAllChats(u)
    \/ Quiet /\ \E u \in Users, c \in ChatIds, m \in MessageIds, a \in Actions :
            ActionStart(u, c, m, a)
    \/ \E i \in 1..MaxPending, o \in GenOutcomes : ActionFinish(i, o)
    \/ Tick

SpecSeq == Init /\ [][NextSeq]_vars

\* requests interleave at the awaits of the send and action handlers
Next ==
    \/ \E u \in Users, t \in RaceTitles : CreateChat(u, t)
    \/ \E u \in Users, c \in RaceChatIds, s \in RaceContents : SendStart(u, c, s)
    \/ \E i \in 1..MaxPending, o \in GenOutcomes : SendFinish(i, o)
    \/ \E u \in Users, c \in RaceChatIds : DeleteChat(u, c)
    \/ \E u \in Users : DeleteAllChats(u)
    \/ \E u \in Users, c \in RaceChatIds, m \in RaceMessageIds, a \in RaceActions :
            ActionStart(u, c, m, a)
    \/ \E i \in 1..MaxPending, o \in GenOutcomes : ActionFinish(i, o)
    \/ Tick

Spec == Init /\ [][Next]_vars

\* ------------------------------------------------------------- properties
TypeOK ==
    /\ now \in 1..MaxTime
    /\ DOMAIN files \subseteq Users
    /\ \A u \in DOMAIN files :
          /\ files[u].username = u
          /\ Len(files[u].chats) <= MaxChats
          /\ \A i \in 1..Len(files[u].chats) : Len(files[u].chats[i].messages) <= MaxMsgs

\* the chats of last.user before and after the response in `last`
PreChats == GetUserData(last.pre, last.user).chats

PostChats == GetUserData(files, last.user).chats

ReadChats == last.read.chats

IsPrefix(s, t) == Len(s) <= Len(t) /\ \A i \in 1..Len(s) : s[i] = t[i]

MsgIds(chat) == [i \in 1..Len(chat.messages) |-> chat.messages[i].id]

RECURSIVE Without(_, _)
Without(chats, chatId) ==
    IF chats = <<>> THEN <<>>
    ELSE IF Head(chats).id = chatId THEN Without(Tail(chats), chatId)
    ELSE <<Head(chats)>> \o Without(Tail(chats), chatId)

\* C1: a send with non-blank content to a chat id that matches no stored chat
\* is answered 404 and leaves the store as it was.
C1_UnknownChatIs404 ==
    (/\ last.op = "send"
     /\ Trim(last.content) # <<>>
     /\ \A i \in 1..Len(PreChats) : PreChats[i].id # last.chatId)
    => (last.status = 404 /\ files = last.pre)

\* C2: when the generation client fails during a send to an existing chat the
\* answer is 500 and the store is what it was before the request: no user
\* message, no derived title, no AI reply.
C2_GenFailureKeepsStore ==
    (last.op = "send" /\ last.gen = "failed")
    => /\ last.status = 500
       /\ files = last.pre
       /\ ~last.overlap => GetUserData(files, last.user) = last.read

C2_Witness ==
    /\ last.op = "send" /\ last.gen = "failed" /\ ~last.overlap
    /\ last.read.chats[last.cidx].messages = <<>>
    /\ last.read.chats[last.cidx].title # DeriveTitle(last.content)
    /\ PostChats[last.cidx].messages = <<>>

\* C3: an action request naming an existing chat and an existing AI message,
\* with an action other than "concise" and "expand", is answered 400 without
\* a generation call, and the store is unchanged.
C3_InvalidActionIs400 ==
    (/\ last.op = "action"
     /\ last.action \notin {"concise", "expand"}
     /\ \E i \in 1..Len(PreChats) :
           /\ PreChats[i].id = last.chatId
           /\ \E j \in 1..Len(PreChats[i].messages) :
                 /\ PreChats[i].messages[j].id = last.messageId
                 /\ PreChats[i].messages[j].sender = "ai")
    => /\ last.status = 400
       /\ last.gen = "none"
       /\ files = last.pre
       /\ \A i \in DOMAIN pend : pend[i].kind = "idle"

\* C4: after a successful send to a chat without messages, the chat's title
\* (stored and returned) is the stored first message's content if that has at
\* most 30 characters, else its first 30 characters followed by "...".
C4_TitleFromStoredMessage ==
    (/\ last.op = "send" /\ last.status = 200
     /\ ReadChats[last.cidx].messages = <<>>)
    => LET chat == PostChats[last.cidx]
           m == chat.messages[1].content
       IN /\ chat.title = last.chatTitle
          /\ chat.title = IF Len(m) <= 30 THEN m ELSE SubSeq(m, 1, 30) \o <<".", ".", ".">>

\* C5: the chats of a user's stored record have pairwise distinct ids, also
\* when the clock returns the same value to several create requests.
C5_ChatIdsDistinct ==
    \A u \in DOMAIN files :
        \A i, j \in 1..Len(files[u].chats) :
            i # j => files[u].chats[i].id # files[u].chats[j].id

\* C6: after a successful create, the new chat, with no messages, is at index
\* 0 and the chats stored before follow it in their order, unmodified.
C6_CreateInsertsAtFront ==
    (last.op = "create" /\ last.status = 200)
    => /\ Len(PostChats) = Len(PreChats) + 1
       /\ PostChats[1].messages = <<>>
       /\ \A i \in 1..Len(PreChats) : PostChats[i + 1] = PreChats[i]

C6_Witness ==
    /\ last.op = "create" /\ last.status = 200
    /\ Len(PreChats) >= 1
    /\ PreChats[1].messages # <<>>
    /\ PostChats[2] = PreChats[1]

\* C7: a create request with a title yields a chat with that title, which a
\* later first message does not replace; without a title the chat is titled
\* "New Chat".
C7_SuppliedTitleKept ==
    /\ (last.op = "create" /\ last.reqTitle.present)
          => PostChats[1].title = last.reqTitle.value
    /\ (last.op = "create" /\ ~last.reqTitle.present)
          => PostChats[1].title = <<"N", "e", "w", " ", "C", "h", "a", "t">>
    /\ (/\ last.op = "send" /\ last.status = 200
        /\ ReadChats[last.cidx].messages = <<>>
        /\ ReadChats[last.cidx].title # <<"N", "e", "w", " ", "C", "h", "a", "t">>)
          => PostChats[last.cidx].title = ReadChats[last.cidx].title

\* C8: a delete removes exactly the chats with the given id and keeps the
\* others in order; the same delete again succeeds and leaves the list as the
\* first one left it.
C8_DeleteIdempotent ==
    (last.op = "delete")
    => /\ last.status = 200
       /\ PostChats = Without(PreChats, last.chatId)
       /\ last.repeat => PostChats = PreChats

C8_Witness ==
    /\ last.op = "delete" /\ last.repeat /\ last.priorChanged
    /\ PostChats # <<>>

\* C9: a send or action request that wrote after another request wrote the
\* same user's record during its suspension leaves the record equal to its
\* own read copy plus its own change.
C9_LastWriteWins ==
    (/\ last.op \in {"send", "action"} /\ last.status = 200 /\ last.overlap)
    => PostChats =
         IF last.op = "send"
         THEN [ReadChats EXCEPT ![last.cidx] =
                 [ReadChats[last.cidx] EXCEPT
                    !.title = last.chatTitle,
                    !.messages = @ \o <<last.userMessage, last.aiMessage>>]]
         ELSE [ReadChats EXCEPT ![last.cidx].messages[last.midx] = last.aiMessage]

C9_Witness ==
    /\ last.op \in {"send", "action"} /\ last.status = 200 /\ last.overlap
    /\ PreChats # ReadChats
    /\ Len(PreChats) > Len(PostChats)

====
